---------------------------- MODULE Spec2Model ----------------------------
(***************************************************************************)
(* Lab-result decoding pipeline of de-hw2: the pandas revision             *)
(* (decode_patients_pandas.py), the SQL revision (decode_patients_sql.py)  *)
(* and the first ad hoc script (decode_patients.py).                       *)
(*                                                                         *)
(* A cell of the value column is a sequence of one-character strings.      *)
(* The Cyrillic letters of the source are written in Latin:               *)
(*   "p" / "P"  the lower / upper case first letter of the positive word,  *)
(*   "o" / "O"  the lower / upper case first letter of the negative word,  *)
(*   "x"        any other letter.                                          *)
(* A whole word the code writes into a cell (a conclusion, a replacement)  *)
(* is a one-element sequence holding the word.                             *)
(***************************************************************************)
EXTENDS Integers, Sequences, FiniteSets, TLC

\* ------------------------------------------------------------------ bounds
\* Longest raw cell text enumerated character by character.
MaxLen == 3
\* Most rows of one input batch.
MaxRows == 3
\* Most runs of the script over the same input and database.
MaxRuns == 2

\* ------------------------------------------------------- program constants
\* filter_patients(df, test_count=2) and check_range(df, med_df, test_count=2)
test_count == 2
\* HAVING SUM(...) >= 2 of SQL_FILTER_PATIENTS
sql_bad_count == 2

\* ------------------------------------------------------------ cell strings
Digits == {"0", "1", "2", "3", "4", "5", "6", "7", "8", "9"}
\* The characters raw cells are enumerated over.
Chars == {"0", "1", "5", ".", ",", "+", "-", " ", "p", "P", "o", "O", "x"}

\* The words the code writes.
Polozhitelnyj == <<"Polozhitelnyj">>
Otricatelnyj == <<"Otricatelnyj">>
Povyshen == <<"Povyshen">>
Ponizhen == <<"Ponizhen">>
Norma == <<"Norma">>
Nekorrektnoe == <<"Nekorrektnoe znachenie">>
Plus == <<"+">>
Minus == <<"-">>
\* df[check_name] = None
None == <<"None">>

\* str.lower on one character
LowerChar(c) == CASE c = "P" -> "p" [] c = "O" -> "o" [] OTHER -> c

\* str.lower
StrLower(v) == [i \in 1..Len(v) |-> LowerChar(v[i])]

\* str.startswith(pat) for a tuple pat of one-character prefixes
StartsWith(v, pat) == Len(v) > 0 /\ v[1] \in pat

\* str.replace(",", ".")
ReplaceCommas(v) == [i \in 1..Len(v) |-> IF v[i] = "," THEN "." ELSE v[i]]

\* The index of the first "." of v, 0 when there is none.
FirstDot(v) ==
    IF \E i \in 1..Len(v) : v[i] = "."
    THEN CHOOSE i \in 1..Len(v) : v[i] = "." /\ \A j \in 1..(i - 1) : v[j] # "."
    ELSE 0

\* x.replace(".", "", 1)
RemoveFirstDot(v) ==
    IF FirstDot(v) = 0 THEN v
    ELSE [i \in 1..(Len(v) - 1) |-> IF i < FirstDot(v) THEN v[i] ELSE v[i + 1]]

\* str.isdigit: not empty, digits only
IsDigit(v) == Len(v) > 0 /\ \A i \in 1..Len(v) : v[i] \in Digits

\* numeric_mask of check_range
NumericMask(v) == IsDigit(RemoveFirstDot(v))

DigitVal(c) == CASE c = "0" -> 0 [] c = "1" -> 1 [] c = "2" -> 2 [] c = "3" -> 3
                 [] c = "4" -> 4 [] c = "5" -> 5 [] c = "6" -> 6 [] c = "7" -> 7
                 [] c = "8" -> 8 [] c = "9" -> 9

RECURSIVE DigitsVal(_)
DigitsVal(v) ==
    IF Len(v) = 0 THEN 0
    ELSE 10 * DigitsVal(SubSeq(v, 1, Len(v) - 1)) + DigitVal(v[Len(v)])

RECURSIVE Pow10(_)
Pow10(n) == IF n = 0 THEN 1 ELSE 10 * Pow10(n - 1)

\* float(value) of a text that passes NumericMask, as the exact decimal
\* m / 10^e it denotes.
Float(v) ==
    [m |-> DigitsVal(RemoveFirstDot(v)),
     e |-> IF FirstDot(v) = 0 THEN 0 ELSE Len(v) - FirstDot(v)]

\* a < b and a <= b on decimals
NumLt(a, b) == a.m * Pow10(b.e) < b.m * Pow10(a.e)
NumLe(a, b) == a.m * Pow10(b.e) <= b.m * Pow10(a.e)

\* --------------------------------------------------------- reference data
\* de.med_an_name: id, name, is_simple kind, min_value, max_value
MedAnName ==
    { [id |-> "A", name |-> "NameA", kind |-> "N",
       min_value |-> [m |-> 10, e |-> 0], max_value |-> [m |-> 40, e |-> 0]],
      [id |-> "B", name |-> "NameB", kind |-> "N",
       min_value |-> [m |-> 10, e |-> 0], max_value |-> [m |-> 15, e |-> 0]] }

KnownTests == {r.id : r \in MedAnName}

\* med_df[med_df[0] == row[test_name]] ... .values[0]
Man(t) == CHOOSE r \in MedAnName : r.id = t

\* de.med_name: id, name, phone
MedName == { [id |-> 1, name |-> "Name1", phone |-> "Phone1"] }

\* ------------------------------------------------- pandas revision, rows
\* clean_values, one cell: lower case, then the vocabulary's prefixes
CleanValue(v) ==
    IF StartsWith(StrLower(v), {"p", "+"}) THEN Polozhitelnyj
    ELSE IF StartsWith(StrLower(v), {"o", "-"}) THEN Otricatelnyj
    ELSE StrLower(v)

\* check_range with its first comparison written <= : a value equal to
\* the maximum is reported as raised.
RangeLabelMaxExclusive(curr_val, min_val, max_val) ==
    IF NumLe(max_val, curr_val) THEN Povyshen
    ELSE IF NumLt(curr_val, min_val) THEN Ponizhen
    ELSE IF NumLe(min_val, curr_val) /\ NumLe(curr_val, max_val) THEN Norma
    ELSE None

\* the if / elif / elif of check_range
RangeLabel(curr_val, min_val, max_val) ==
    IF NumLt(max_val, curr_val) THEN Povyshen
    ELSE IF NumLt(curr_val, min_val) THEN Ponizhen
    ELSE IF NumLe(min_val, curr_val) /\ NumLe(curr_val, max_val) THEN Norma
    ELSE None

\* check_range, one row's conclusion (the test is in med_df)
Conclusion(v, t) ==
    IF ~NumericMask(v) THEN v
    ELSE RangeLabel(Float(v), Man(t).min_value, Man(t).max_value)

\* ---------------------------------------------------- SQL revision, rows
\* str(row[value]).replace(",", ".") of the load loop
LoadValue(v) == ReplaceCommas(v)

\* CASE of SQL_CLEAN_VALUES: the regular expressions are case sensitive
SqlCleanValue(v) ==
    IF StartsWith(v, {"P"}) THEN Plus
    ELSE IF StartsWith(v, {"O"}) THEN Minus
    ELSE v

\* value ~ '^[0-9.]+$'
RegexNumeric(v) == Len(v) > 0 /\ \A i \in 1..Len(v) : v[i] \in Digits \cup {"."}

\* CAST(value AS FLOAT) raises on a text that is no number
CastFails(v) == ~NumericMask(v)

\* The CAST is evaluated, and raises, in a row that reaches the third WHEN.
DecodeRaises(v) == v # Plus /\ v # Minus /\ RegexNumeric(v) /\ CastFails(v)

\* CASE of SQL_DECODE_ANALYSIS
SqlConclusion(v, man) ==
    IF v = Plus THEN Polozhitelnyj
    ELSE IF v = Minus THEN Otricatelnyj
    ELSE IF RegexNumeric(v) /\ NumLt(Float(v), man.min_value) THEN Ponizhen
    ELSE IF RegexNumeric(v) /\ NumLt(man.max_value, Float(v)) THEN Povyshen
    ELSE IF RegexNumeric(v) THEN Norma
    ELSE Nekorrektnoe

\* ------------------------------------------------ ad hoc revision, rows
\* clean_values of decode_patients.py: the vocabulary maps to "+" and "-"
AdhocCleanValue(v) ==
    IF StartsWith(StrLower(v), {"p"}) THEN Plus
    ELSE IF StartsWith(StrLower(v), {"o"}) THEN Minus
    ELSE StrLower(v)

RECURSIVE LStrip(_)
LStrip(v) == IF Len(v) > 0 /\ v[1] = " " THEN LStrip(Tail(v)) ELSE v

RECURSIVE RStrip(_)
RStrip(v) ==
    IF Len(v) > 0 /\ v[Len(v)] = " " THEN RStrip(SubSeq(v, 1, Len(v) - 1)) ELSE v

\* str.strip
Strip(v) == RStrip(LStrip(v))

\* The text of a number without the sign Python's float accepts before it.
Unsigned(v) == IF StartsWith(v, {"+", "-"}) THEN Tail(v) ELSE v

\* float(row[value_name]) raises ValueError: float takes surrounding blanks
\* and one sign
FloatRaises(v) == ~NumericMask(Unsigned(Strip(v)))

\* float(row[value_name]) of decode_patients.py
SignedFloat(v) ==
    [m |-> IF StartsWith(Strip(v), {"-"})
           THEN 0 - Float(Unsigned(Strip(v))).m
           ELSE Float(Unsigned(Strip(v))).m,
     e |-> Float(Unsigned(Strip(v))).e]

\* the if / elif of check_range of decode_patients.py
AdhocLabel(curr_val, min_val, max_val) ==
    IF NumLt(max_val, curr_val) THEN <<"True">>
    ELSE IF NumLt(curr_val, min_val) THEN <<"False">>
    ELSE None

\* ------------------------------------------------------------ data frames
Range(s) == {s[i] : i \in DOMAIN s}

\* df.groupby(patient_code).size()
GroupSize(df, p) == Cardinality({i \in DOMAIN df : df[i].pat = p})

\* filter_patients
filter_patients(df) ==
    LET Keep(r) == GroupSize(df, r.pat) >= test_count
    IN  SelectSeq(df, Keep)

\* clean_values
clean_values(df) == [i \in DOMAIN df |-> [df[i] EXCEPT !.val = CleanValue(@)]]

\* clean_values of decode_patients.py
adhoc_clean_values(df) ==
    [i \in DOMAIN df |-> [df[i] EXCEPT !.val = AdhocCleanValue(@)]]

\* med_df[...][3].values[0] raises IndexError for a numeric row whose test
\* is not in med_df
LookupRaises(df) ==
    \E i \in DOMAIN df : NumericMask(df[i].val) /\ df[i].test \notin KnownTests

\* check_range up to the end of its loop: df with the conclusion column
Classified(df) ==
    [i \in DOMAIN df |->
        [pat |-> df[i].pat, test |-> df[i].test, val |-> df[i].val,
         concl |-> Conclusion(df[i].val, df[i].test)]]

\* the lambda of the aggregation: (x != Norma) & (x != Otricatelnyj)
IsBad(x) == x # Norma /\ x # Otricatelnyj

\* grouped[patient_name] after grouped[... >= test_count]
Grouped(cdf) ==
    {p \in {r.pat : r \in Range(cdf)} :
        Cardinality({i \in DOMAIN cdf : cdf[i].pat = p /\ IsBad(cdf[i].concl)})
            >= test_count}

\* final_table of check_range
FinalTable(cdf) ==
    LET Keep(r) == r.pat \in Grouped(cdf)
                   /\ r.concl \in {Povyshen, Ponizhen, Polozhitelnyj}
        sel == SelectSeq(cdf, Keep)
    IN  [i \in DOMAIN sel |->
            [pat |-> sel[i].pat, test |-> sel[i].test, concl |-> sel[i].concl]]

HasContact(p) == \E mn \in MedName : mn.id = p
Contact(p) == CHOOSE mn \in MedName : mn.id = p

\* get_final_table: inner merge on id, columns Telefon, Imya, Analiz,
\* Zaklyuchenie
get_final_table(df1) ==
    LET Keep(r) == HasContact(r.pat)
        sel == SelectSeq(df1, Keep)
    IN  [i \in DOMAIN sel |->
            [Telefon |-> Contact(sel[i].pat).phone,
             Imya |-> Contact(sel[i].pat).name,
             Analiz |-> sel[i].test,
             Zaklyuchenie |-> sel[i].concl]]

\* check_range of decode_patients.py: the rows of the tests of kind N
AdhocRows(df) ==
    LET Keep(r) == r.test \in {m.id : m \in {n \in MedAnName : n.kind = "N"}}
    IN  SelectSeq(df, Keep)

AdhocRaises(df) == \E r \in Range(AdhocRows(df)) : FloatRaises(r.val)

adhoc_check_range(df) ==
    LET sel == AdhocRows(df)
    IN  [i \in DOMAIN sel |->
            [pat |-> sel[i].pat, test |-> sel[i].test, val |-> sel[i].val,
             concl |-> AdhocLabel(SignedFloat(sel[i].val),
                                  Man(sel[i].test).min_value,
                                  Man(sel[i].test).max_value)]]

\* ------------------------------------------------------------ SQL tables
\* the load loop: one INSERT INTO medicine for each row of df
Medicine(df) == [i \in DOMAIN df |-> [df[i] EXCEPT !.val = LoadValue(@)]]

\* SQL_CLEAN_VALUES
CleanedData(medicine) ==
    [i \in DOMAIN medicine |-> [medicine[i] EXCEPT !.val = SqlCleanValue(@)]]

\* FROM cleaned_data cd JOIN de.med_an_name man ON cd.test = man.id
Joined(cleaned) ==
    LET Keep(r) == r.test \in KnownTests
    IN  SelectSeq(cleaned, Keep)

SqlDecodeRaises(cleaned) == \E r \in Range(Joined(cleaned)) : DecodeRaises(r.val)

\* SQL_DECODE_ANALYSIS
DecodedData(cleaned) ==
    LET sel == Joined(cleaned)
    IN  [i \in DOMAIN sel |->
            [pat |-> sel[i].pat, test |-> sel[i].test,
             tname |-> Man(sel[i].test).name, val |-> sel[i].val,
             concl |-> SqlConclusion(sel[i].val, Man(sel[i].test))]]

\* The check with the label misspelt: it matches no row.
HasIncorrectMisspelt(decoded) ==
    \E r \in Range(decoded) : r.concl = <<"Nekorrektnoe">>

\* IF EXISTS (SELECT 1 FROM decoded_data WHERE concl = 'Nekorrektnoe znachenie')
HasIncorrect(decoded) == \E r \in Range(decoded) : r.concl = Nekorrektnoe

SqlBad == {Povyshen, Ponizhen, Polozhitelnyj}

BadCount(decoded, p) ==
    Cardinality({i \in DOMAIN decoded :
                    decoded[i].pat = p /\ decoded[i].concl \in SqlBad})

\* SQL_FILTER_PATIENTS
FilteredPatients(decoded) ==
    { [pat |-> p, total |-> GroupSize(decoded, p), bad |-> BadCount(decoded, p)] :
        p \in {q \in {r.pat : r \in Range(decoded)} :
                  BadCount(decoded, q) >= sql_bad_count} }

\* SQL_FINAL_RESULTS_WITH_PATIENTS, and the SELECT of CREATE TABLE ... AS
FinalResults(filtered, decoded) ==
    LET Keep(cd) == cd.pat \in {fp.pat : fp \in filtered}
                    /\ HasContact(cd.pat)
                    /\ cd.concl \in SqlBad
        sel == SelectSeq(decoded, Keep)
    IN  [i \in DOMAIN sel |->
            [Telefon |-> Contact(sel[i].pat).phone,
             Imya |-> Contact(sel[i].pat).name,
             Analiz |-> sel[i].tname,
             Zaklyuchenie |-> sel[i].concl]]

\* ------------------------------------------------------------------ state
VARIABLES
    rev,          \* which script runs: "pandas", "sql" or "adhoc"
    batch,        \* the rows of the input spreadsheet
    pc,           \* the statement the script is at, "done" or "aborted"
    conn,         \* "none", "open", or "closed" once conn.close() has run
    err,          \* the exception that ended the run, "none" without one
    df,           \* the data frame df of the script
    classified,   \* check_range: df with its conclusion column
    grouped,      \* check_range: the patients of grouped after the threshold
    df_final,     \* the pandas script's df_final
    tmp,          \* the SQL session's temporary tables, by name
    results,      \* the SQL script's results = cursor.fetchall()
    db,           \* public.maka_med_results as committed
    tx,           \* public.maka_med_results as the open transaction sees it
    xlsx,         \* the rows of data/maka_med_results.xlsx
    xlsx_written, \* the output spreadsheet was written in this run
    runs,         \* runs started
    ok_runs,      \* runs that reached their end
    db_at_start,  \* db when this run started
    raw,          \* one cell: its raw text
    vtest,        \* one cell: its test
    vstage,       \* one cell: how far it has been processed
    pd_val,       \* one cell: the value after clean_values
    pd_out,       \* one cell: the conclusion of check_range
    sql_val,      \* one cell: the value in medicine, then in cleaned_data
    sql_out       \* one cell: the conclusion in decoded_data

runVars == <<rev, batch, pc, conn, err, df, classified, grouped, df_final, tmp,
             results, db, tx, xlsx, xlsx_written, runs, ok_runs, db_at_start>>
cellVars == <<raw, vtest, vstage, pd_val, pd_out, sql_val, sql_out>>
vars == <<runVars, cellVars>>

\* ------------------------------------------------------------------ inputs
Revisions == {"pandas", "sql", "adhoc"}
Patients == {1, 2}

\* The test and raw value of a sample row; "Z" is a test de.med_an_name
\* does not hold.
SampleCells ==
    << [test |-> "A", val |-> <<"5", "0">>],
       [test |-> "A", val |-> <<"P">>],
       [test |-> "A", val |-> <<"3", "0">>],
       [test |-> "A", val |-> <<"O">>],
       [test |-> "A", val |-> <<"5">>],
       [test |-> "A", val |-> <<"x">>],
       [test |-> "A", val |-> <<".">>],
       [test |-> "B", val |-> <<"1", "2", ",", "5">>],
       [test |-> "Z", val |-> <<"5", "0">>],
       [test |-> "Z", val |-> <<"P">>] >>

NCells == Len(SampleCells)
NRows == NCells * Cardinality(Patients)

\* The k-th sample row, by patient and then by cell.
RowAt(k) ==
    [pat |-> ((k - 1) \div NCells) + 1,
     test |-> SampleCells[((k - 1) % NCells) + 1].test,
     val |-> SampleCells[((k - 1) % NCells) + 1].val]

\* The input batches: up to MaxRows sample rows. No step depends on the
\* order of the rows, so one order stands for each collection of rows.
Batches ==
    UNION { { [i \in 1..n |-> RowAt(s[i])] :
                s \in {t \in [1..n -> 1..NRows] :
                          \A i \in 1..(n - 1) : t[i] <= t[i + 1]} } :
            n \in 0..MaxRows }

NoTable == [exists |-> FALSE, rows |-> <<>>]
NoTmp == [n \in {} |-> <<>>]

FirstStep(r) == IF r = "sql" THEN "read_excel" ELSE "connect"

CellIdle ==
    /\ raw = <<>> /\ vtest = "A" /\ vstage = "idle"
    /\ pd_val = <<>> /\ pd_out = <<>> /\ sql_val = <<>> /\ sql_out = <<>>

Init ==
    /\ rev \in Revisions
    /\ batch \in Batches
    /\ pc = FirstStep(rev)
    /\ conn = "none"
    /\ err = "none"
    /\ df = <<>>
    /\ classified = <<>>
    /\ grouped = {}
    /\ df_final = <<>>
    /\ tmp = NoTmp
    /\ results = <<>>
    /\ db = NoTable
    /\ tx = NoTable
    /\ xlsx = <<>>
    /\ xlsx_written = FALSE
    /\ runs = 1
    /\ ok_runs = 0
    /\ db_at_start = NoTable
    /\ CellIdle

\* ----------------------------------------------------------------- actions
\* An uncaught exception ends the script: no statement after it runs
\* (conn.close() among them), and the session's open transaction is lost.
Abort(cause) ==
    /\ pc' = "aborted"
    /\ err' = cause
    /\ tx' = db

\* psycopg2.connect(...); conn.autocommit = False
Connect ==
    /\ pc = "connect"
    /\ conn' = "open"
    /\ pc' = IF rev = "sql" THEN "load_medicine" ELSE "read_excel"
    /\ UNCHANGED <<rev, batch, err, df, classified, grouped, df_final, tmp,
                   results, db, tx, xlsx, xlsx_written, runs, ok_runs,
                   db_at_start, cellVars>>

\* pd.read_excel("data/medicine.xlsx", sheet_name="hard", header=0)
ReadExcel ==
    /\ pc = "read_excel"
    /\ df' = batch
    /\ pc' = IF rev = "sql" THEN "connect" ELSE "filter_patients"
    /\ UNCHANGED <<rev, batch, conn, err, classified, grouped, df_final, tmp,
                   results, db, tx, xlsx, xlsx_written, runs, ok_runs,
                   db_at_start, cellVars>>

\* df = filter_patients(df)
FilterPatients ==
    /\ pc = "filter_patients"
    /\ df' = filter_patients(df)
    /\ pc' = "clean_values"
    /\ UNCHANGED <<rev, batch, conn, err, classified, grouped, df_final, tmp,
                   results, db, tx, xlsx, xlsx_written, runs, ok_runs,
                   db_at_start, cellVars>>

\* df = clean_values(df)
CleanValues ==
    /\ pc = "clean_values"
    /\ df' = IF rev = "adhoc" THEN adhoc_clean_values(df) ELSE clean_values(df)
    /\ pc' = "get_med_an_name"
    /\ UNCHANGED <<rev, batch, conn, err, classified, grouped, df_final, tmp,
                   results, db, tx, xlsx, xlsx_written, runs, ok_runs,
                   db_at_start, cellVars>>

\* med_df = get_med_an_name(conn): reads de.med_an_name
GetMedAnName ==
    /\ pc = "get_med_an_name"
    /\ pc' = IF rev = "adhoc" THEN "adhoc_check_range" ELSE "get_med_name"
    /\ UNCHANGED <<rev, batch, conn, err, df, classified, grouped, df_final,
                   tmp, results, db, tx, xlsx, xlsx_written, runs, ok_runs,
                   db_at_start, cellVars>>

\* med_name_df = get_med_name(conn): reads de.med_name
GetMedName ==
    /\ pc = "get_med_name"
    /\ pc' = "check_range"
    /\ UNCHANGED <<rev, batch, conn, err, df, classified, grouped, df_final,
                   tmp, results, db, tx, xlsx, xlsx_written, runs, ok_runs,
                   db_at_start, cellVars>>

\* df = check_range(df, med_df) of decode_patients_pandas.py
CheckRange ==
    /\ pc = "check_range"
    /\ IF LookupRaises(df)
       THEN /\ Abort("IndexError")
            /\ UNCHANGED <<df, classified, grouped>>
       ELSE /\ classified' = Classified(df)
            /\ grouped' = Grouped(Classified(df))
            /\ df' = FinalTable(Classified(df))
            /\ pc' = "get_final_table"
            /\ UNCHANGED <<err, tx>>
    /\ UNCHANGED <<rev, batch, conn, df_final, tmp, results, db, xlsx,
                   xlsx_written, runs, ok_runs, db_at_start, cellVars>>

\* df = check_range(df, med_df) of decode_patients.py
AdhocCheckRange ==
    /\ pc = "adhoc_check_range"
    /\ IF AdhocRaises(df)
       THEN /\ Abort("ValueError")
            /\ UNCHANGED df
       ELSE /\ df' = adhoc_check_range(df)
            /\ pc' = "close"
            /\ UNCHANGED <<err, tx>>
    /\ UNCHANGED <<rev, batch, conn, classified, grouped, df_final, tmp,
                   results, db, xlsx, xlsx_written, runs, ok_runs, db_at_start,
                   cellVars>>

\* df_final = get_final_table(df, med_name_df)
GetFinalTable ==
    /\ pc = "get_final_table"
    /\ df_final' = get_final_table(df)
    /\ pc' = "load_final_table_to_db"
    /\ UNCHANGED <<rev, batch, conn, err, df, classified, grouped, tmp,
                   results, db, tx, xlsx, xlsx_written, runs, ok_runs,
                   db_at_start, cellVars>>

\* The table after CREATE TABLE IF NOT EXISTS and executemany(INSERT ...).
Inserted(t, rows) == [exists |-> TRUE, rows |-> t.rows \o rows]

\* load_final_table_to_db(conn, df_final): "with conn" commits at its end
LoadFinalTableToDb ==
    /\ pc = "load_final_table_to_db"
    /\ db' = Inserted(tx, df_final)
    /\ tx' = Inserted(tx, df_final)
    /\ pc' = "to_excel"
    /\ UNCHANGED <<rev, batch, conn, err, df, classified, grouped, df_final,
                   tmp, results, xlsx, xlsx_written, runs, ok_runs,
                   db_at_start, cellVars>>

\* df_final.to_excel(...) and final_df.to_excel(output_file, index=False)
ToExcel ==
    /\ pc = "to_excel"
    /\ xlsx' = IF rev = "sql" THEN results ELSE df_final
    /\ xlsx_written' = TRUE
    /\ pc' = "close"
    /\ UNCHANGED <<rev, batch, conn, err, df, classified, grouped, df_final,
                   tmp, results, db, tx, runs, ok_runs, db_at_start, cellVars>>

\* conn.close(), the script's last statement
Close ==
    /\ pc = "close"
    /\ conn' = "closed"
    /\ pc' = "done"
    /\ ok_runs' = ok_runs + 1
    /\ UNCHANGED <<rev, batch, err, df, classified, grouped, df_final, tmp,
                   results, db, tx, xlsx, xlsx_written, runs, db_at_start,
                   cellVars>>

\* CREATE TEMP TABLE medicine and the load loop
LoadMedicine ==
    /\ pc = "load_medicine"
    /\ tmp' = ("medicine" :> Medicine(df)) @@ tmp
    /\ pc' = "SQL_CLEAN_VALUES"
    /\ UNCHANGED <<rev, batch, conn, err, df, classified, grouped, df_final,
                   results, db, tx, xlsx, xlsx_written, runs, ok_runs,
                   db_at_start, cellVars>>

\* cursor.execute(SQL_CLEAN_VALUES)
SqlCleanValues ==
    /\ pc = "SQL_CLEAN_VALUES"
    /\ tmp' = ("cleaned_data" :> CleanedData(tmp["medicine"])) @@ tmp
    /\ pc' = "SQL_DECODE_ANALYSIS"
    /\ UNCHANGED <<rev, batch, conn, err, df, classified, grouped, df_final,
                   results, db, tx, xlsx, xlsx_written, runs, ok_runs,
                   db_at_start, cellVars>>

\* cursor.execute(SQL_DECODE_ANALYSIS)
SqlDecodeAnalysis ==
    /\ pc = "SQL_DECODE_ANALYSIS"
    /\ IF SqlDecodeRaises(tmp["cleaned_data"])
       THEN /\ Abort("InvalidTextRepresentation")
            /\ UNCHANGED tmp
       ELSE /\ tmp' = ("decoded_data" :> DecodedData(tmp["cleaned_data"])) @@ tmp
            /\ pc' = "SQL_CHECK_CORRECT_VALUE"
            /\ UNCHANGED <<err, tx>>
    /\ UNCHANGED <<rev, batch, conn, df, classified, grouped, df_final,
                   results, db, xlsx, xlsx_written, runs, ok_runs, db_at_start,
                   cellVars>>

\* cursor.execute(SQL_CHECK_CORRECT_VALUE)
SqlCheckCorrectValue ==
    /\ pc = "SQL_CHECK_CORRECT_VALUE"
    /\ IF HasIncorrect(tmp["decoded_data"])
       THEN Abort("RaiseException")
       ELSE /\ pc' = "SQL_FILTER_PATIENTS"
            /\ UNCHANGED <<err, tx>>
    /\ UNCHANGED <<rev, batch, conn, df, classified, grouped, df_final, tmp,
                   results, db, xlsx, xlsx_written, runs, ok_runs, db_at_start,
                   cellVars>>

\* cursor.execute(SQL_FILTER_PATIENTS)
SqlFilterPatients ==
    /\ pc = "SQL_FILTER_PATIENTS"
    /\ tmp' = ("filtered_patients" :> FilteredPatients(tmp["decoded_data"])) @@ tmp
    /\ pc' = "SQL_FINAL_RESULTS_WITH_PATIENTS"
    /\ UNCHANGED <<rev, batch, conn, err, df, classified, grouped, df_final,
                   results, db, tx, xlsx, xlsx_written, runs, ok_runs,
                   db_at_start, cellVars>>

\* cursor.execute(SQL_FINAL_RESULTS_WITH_PATIENTS); results = cursor.fetchall()
SqlFinalResults ==
    /\ pc = "SQL_FINAL_RESULTS_WITH_PATIENTS"
    /\ results' = FinalResults(tmp["filtered_patients"], tmp["decoded_data"])
    /\ pc' = "create_table"
    /\ UNCHANGED <<rev, batch, conn, err, df, classified, grouped, df_final,
                   tmp, db, tx, xlsx, xlsx_written, runs, ok_runs, db_at_start,
                   cellVars>>

\* The table after CREATE TABLE IF NOT EXISTS ... AS SELECT: an existing
\* table is left as it is.
CreatedAs(t, rows) == IF t.exists THEN t ELSE [exists |-> TRUE, rows |-> rows]

\* cursor.execute("CREATE TABLE IF NOT EXISTS public.maka_med_results AS ...")
CreateTable ==
    /\ pc = "create_table"
    /\ tx' = CreatedAs(tx, FinalResults(tmp["filtered_patients"],
                                        tmp["decoded_data"]))
    /\ pc' = "commit"
    /\ UNCHANGED <<rev, batch, conn, err, df, classified, grouped, df_final,
                   tmp, results, db, xlsx, xlsx_written, runs, ok_runs,
                   db_at_start, cellVars>>

\* conn.commit()
Commit ==
    /\ pc = "commit"
    /\ db' = tx
    /\ pc' = "to_excel"
    /\ UNCHANGED <<rev, batch, conn, err, df, classified, grouped, df_final,
                   tmp, results, tx, xlsx, xlsx_written, runs, ok_runs,
                   db_at_start, cellVars>>

\* The statements that read the input, talk to the database or write the
\* output file.
IOSteps ==
    {"connect", "read_excel", "get_med_an_name", "get_med_name",
     "load_final_table_to_db", "to_excel", "load_medicine",
     "SQL_DECODE_ANALYSIS", "SQL_FINAL_RESULTS_WITH_PATIENTS", "create_table",
     "commit"}

\* One of them raises (a missing file, a lost connection, a failed INSERT,
\* an unwritable output file); load_final_table_to_db's "with conn" rolls
\* its transaction back.
IOFailure ==
    /\ pc \in IOSteps
    /\ Abort("IOError")
    /\ UNCHANGED <<rev, batch, conn, df, classified, grouped, df_final, tmp,
                   results, db, xlsx, xlsx_written, runs, ok_runs, db_at_start,
                   cellVars>>

\* The script is started again on the same input and the same database.
NextRun ==
    /\ pc \in {"done", "aborted"}
    /\ runs < MaxRuns
    /\ runs' = runs + 1
    /\ pc' = FirstStep(rev)
    /\ conn' = "none"
    /\ err' = "none"
    /\ df' = <<>>
    /\ classified' = <<>>
    /\ grouped' = {}
    /\ df_final' = <<>>
    /\ tmp' = NoTmp
    /\ results' = <<>>
    /\ tx' = db
    /\ xlsx_written' = FALSE
    /\ db_at_start' = db
    /\ UNCHANGED <<rev, batch, db, xlsx, ok_runs, cellVars>>

Next ==
    \/ Connect \/ ReadExcel \/ FilterPatients \/ CleanValues \/ GetMedAnName
    \/ GetMedName \/ CheckRange \/ AdhocCheckRange \/ GetFinalTable
    \/ LoadFinalTableToDb \/ ToExcel \/ Close \/ LoadMedicine
    \/ SqlCleanValues \/ SqlDecodeAnalysis \/ SqlCheckCorrectValue
    \/ SqlFilterPatients \/ SqlFinalResults \/ CreateTable \/ Commit
    \/ IOFailure \/ NextRun

Spec == Init /\ [][Next]_vars

\* ------------------------------------------------- one cell, step by step
\* The raw texts of one cell: every text of up to MaxLen characters, and the
\* text 12,5.
RawCells ==
    UNION { [1..n -> Chars] : n \in 1..MaxLen } \cup { <<"1", "2", ",", "5">> }

RunIdle ==
    /\ rev = "pandas" /\ batch = <<>> /\ pc = "idle" /\ conn = "none"
    /\ err = "none" /\ df = <<>> /\ classified = <<>> /\ grouped = {}
    /\ df_final = <<>> /\ tmp = NoTmp /\ results = <<>> /\ db = NoTable
    /\ tx = NoTable /\ xlsx = <<>> /\ xlsx_written = FALSE /\ runs = 1
    /\ ok_runs = 0 /\ db_at_start = NoTable

CellInit ==
    /\ raw \in RawCells
    /\ vtest \in KnownTests
    /\ vstage = "raw"
    /\ pd_val = <<>> /\ pd_out = <<>> /\ sql_val = <<>> /\ sql_out = <<>>
    /\ RunIdle

\* clean_values on the cell
CellCleanValues ==
    /\ vstage = "raw"
    /\ pd_val' = CleanValue(raw)
    /\ vstage' = "clean_values"
    /\ UNCHANGED <<raw, vtest, pd_out, sql_val, sql_out, runVars>>

\* check_range on the cell's row
CellCheckRange ==
    /\ vstage = "clean_values"
    /\ pd_out' = Conclusion(pd_val, vtest)
    /\ vstage' = "check_range"
    /\ UNCHANGED <<raw, vtest, pd_val, sql_val, sql_out, runVars>>

\* the load loop's INSERT INTO medicine of the cell's row
CellLoadMedicine ==
    /\ vstage = "check_range"
    /\ sql_val' = LoadValue(raw)
    /\ vstage' = "medicine"
    /\ UNCHANGED <<raw, vtest, pd_val, pd_out, sql_out, runVars>>

\* SQL_CLEAN_VALUES on the cell's row
CellSqlCleanValues ==
    /\ vstage = "medicine"
    /\ sql_val' = SqlCleanValue(sql_val)
    /\ vstage' = "cleaned_data"
    /\ UNCHANGED <<raw, vtest, pd_val, pd_out, sql_out, runVars>>

\* SQL_DECODE_ANALYSIS on the cell's row; the statement raises when the
\* CAST does
CellSqlDecodeAnalysis ==
    /\ vstage = "cleaned_data"
    /\ sql_out' = IF DecodeRaises(sql_val) THEN <<"InvalidTextRepresentation">>
                  ELSE SqlConclusion(sql_val, Man(vtest))
    /\ vstage' = "decoded_data"
    /\ UNCHANGED <<raw, vtest, pd_val, pd_out, sql_val, runVars>>

CellNext ==
    \/ CellCleanValues \/ CellCheckRange \/ CellLoadMedicine
    \/ CellSqlCleanValues \/ CellSqlDecodeAnalysis

SpecCell == CellInit /\ [][CellNext]_vars

\* ================================================================= claims

\* A text of digits with at most one period and at least one digit.
IsNumeral(v) ==
    /\ \A i \in 1..Len(v) : v[i] \in Digits \cup {"."}
    /\ Cardinality({i \in 1..Len(v) : v[i] = "."}) <= 1
    /\ \E i \in 1..Len(v) : v[i] \in Digits

\* C1: a numeric result of a test with the range [min_value, max_value] is
\* labelled raised when it is above max_value, lowered when it is below
\* min_value and normal otherwise, both bounds included, by check_range and
\* by SQL_DECODE_ANALYSIS alike.
C1_BoundaryLaw ==
    (vstage = "decoded_data" /\ IsNumeral(raw)) =>
        LET x == Float(raw)
            lo == Man(vtest).min_value
            hi == Man(vtest).max_value
            expected == IF x.m * Pow10(hi.e) > hi.m * Pow10(x.e) THEN Povyshen
                        ELSE IF x.m * Pow10(lo.e) < lo.m * Pow10(x.e) THEN Ponizhen
                        ELSE Norma
        IN  pd_out = expected /\ sql_out = expected

\* C1, its case: the value 15 of test B, whose range is [10, 15], is normal.
C1_Witness ==
    /\ vstage = "decoded_data" /\ raw = <<"1", "5">> /\ vtest = "B"
    /\ pd_out = Norma /\ sql_out = Norma

\* What C4 says the Normalizer returns, with the revision's two symbols.
ClaimedNormal(v, pos, neg) ==
    IF StartsWith(Strip(StrLower(v)), {"p", "+"}) THEN pos
    ELSE IF StartsWith(Strip(StrLower(v)), {"o", "-"}) THEN neg
    ELSE ReplaceCommas(Strip(StrLower(v)))

\* C4: the Normalizer case-folds and trims the raw value, maps the two
\* marker prefixes to the canonical symbols and replaces commas by periods
\* in every other text; so 12,5 of a test with the range [10, 15] is normal.
C4_Normalizer ==
    /\ vstage \in {"clean_values", "check_range", "medicine", "cleaned_data",
                    "decoded_data"}
          => pd_val = ClaimedNormal(raw, Polozhitelnyj, Otricatelnyj)
    /\ vstage \in {"cleaned_data", "decoded_data"}
          => sql_val = ClaimedNormal(raw, Plus, Minus)
    /\ (vstage = "decoded_data" /\ raw = <<"1", "2", ",", "5">> /\ vtest = "B")
          => (pd_out = Norma /\ sql_out = Norma)

\* The bad results of the spec: raised, lowered or positive.
BadLabels == {Povyshen, Ponizhen, Polozhitelnyj}

\* The patients of a classified table with at least n bad results.
PatientsWithBad(t, n) ==
    {p \in {r.pat : r \in Range(t)} :
        Cardinality({i \in DOMAIN t : t[i].pat = p /\ t[i].concl \in BadLabels})
            >= n}

\* check_range has returned in this run of the pandas script.
AfterCheckRange ==
    /\ rev = "pandas"
    /\ pc \in {"get_final_table", "load_final_table_to_db", "to_excel", "close",
                "done"}

\* C2: the Aggregator retains exactly the patients with at least the
\* threshold of results classified raised, lowered or positive; a normal, a
\* negative or a passed-through text result adds nothing to the count.
C2_BadResultGate ==
    /\ AfterCheckRange => grouped = PatientsWithBad(classified, test_count)
    /\ "filtered_patients" \in DOMAIN tmp =>
          {fp.pat : fp \in tmp["filtered_patients"]}
              = PatientsWithBad(tmp["decoded_data"], sql_bad_count)

\* The number of places of s that hold r.
Count(s, r) == Cardinality({i \in DOMAIN s : s[i] = r})

\* The same rows, each as many times, in any order.
SameRows(s, t) ==
    \A r \in Range(s) \cup Range(t) : Count(s, r) = Count(t, r)

\* The report C3 describes, from a classified table.
ClaimedReport(t, n) ==
    LET Keep(r) == /\ r.pat \in PatientsWithBad(t, n)
                   /\ r.concl \in BadLabels
                   /\ HasContact(r.pat)
                   /\ r.test \in KnownTests
        sel == SelectSeq(t, Keep)
    IN  [i \in DOMAIN sel |->
            [Telefon |-> Contact(sel[i].pat).phone,
             Imya |-> Contact(sel[i].pat).name,
             Analiz |-> Man(sel[i].test).name,
             Zaklyuchenie |-> sel[i].concl]]

\* C3: the report holds one row for each bad result of a patient who passes
\* the bad-result gate and has a contact record, with the contact's phone and
\* name and the test's name from the reference table; a retained patient
\* without a contact record adds no row and does not end the run.
C3_Report ==
    /\ (rev = "pandas" /\ pc \in {"load_final_table_to_db", "to_excel", "close",
                                    "done"})
          => SameRows(df_final, ClaimedReport(classified, test_count))
    /\ (rev = "sql" /\ pc \in {"create_table", "commit", "to_excel", "close",
                                 "done"})
          => SameRows(results, ClaimedReport(tmp["decoded_data"], sql_bad_count))
    /\ (rev = "sql" /\ xlsx_written) => xlsx = results
    /\ (rev = "pandas" /\ xlsx_written) => xlsx = df_final

\* C5: in the SQL revision a row classified as an incorrect value ends the
\* run at the check, before the aggregation: filtered_patients is never
\* built, nothing reaches the persistent table and no spreadsheet is written.
C5_StrictAbort ==
    (/\ rev = "sql"
     /\ "decoded_data" \in DOMAIN tmp
     /\ \E i \in DOMAIN tmp["decoded_data"] :
            tmp["decoded_data"][i].concl = Nekorrektnoe)
    => /\ pc \in {"SQL_CHECK_CORRECT_VALUE", "aborted"}
       /\ pc = "aborted" => err = "RaiseException"
       /\ "filtered_patients" \notin DOMAIN tmp
       /\ db = db_at_start
       /\ tx = db_at_start
       /\ ~xlsx_written

\* C5, its case: a run of the SQL script ended by the check's exception.
C5_Witness ==
    /\ rev = "sql" /\ pc = "aborted" /\ err = "RaiseException"
    /\ \E i \in DOMAIN tmp["decoded_data"] :
          tmp["decoded_data"][i].concl = Nekorrektnoe

\* C6: a result whose test is not in the reference table is left out (it is
\* not classified, counted or reported) and never ends the run.
C6_UnknownTest ==
    /\ err # "IndexError"
    /\ \A r \in Range(classified) : r.test \in KnownTests
    /\ "decoded_data" \in DOMAIN tmp =>
          \A r \in Range(tmp["decoded_data"]) : r.test \in KnownTests

\* C7: in every revision no row of a patient with fewer than test_count raw
\* rows reaches the Classifier.
C7_RawCountGate ==
    /\ \A r \in Range(classified) : GroupSize(batch, r.pat) >= test_count
    /\ (rev = "adhoc" /\ pc \in {"close", "done"}) =>
          \A r \in Range(df) : GroupSize(batch, r.pat) >= test_count
    /\ "decoded_data" \in DOMAIN tmp =>
          \A r \in Range(tmp["decoded_data"]) :
              GroupSize(batch, r.pat) >= test_count

RECURSIVE Copies(_, _)
Copies(s, n) == IF n = 0 THEN <<>> ELSE s \o Copies(s, n - 1)

\* C8: after n runs that all succeeded on the same input the persistent table
\* exists and holds n copies of the report.
C8_Appends ==
    (pc = "done" /\ ok_runs = runs /\ rev # "adhoc") =>
        /\ db.exists
        /\ db.rows = Copies(IF rev = "sql" THEN results ELSE df_final, runs)

\* C9: a run that fails leaves the persistent table as it was when the run
\* started.
C9_AllOrNothing == pc = "aborted" => db.rows = db_at_start.rows

\* C10: when the run has ended, normally or by an error, the connection it
\* opened has been closed.
C10_ConnectionReleased == pc \in {"done", "aborted"} => conn # "open"

=============================================================================
